---- MODULE Spec2Model ----
(***************************************************************************)
(* Model of dh_paid_feed_generator.py: the paid-chapter feed generator.    *)
(*                                                                         *)
(* Time is counted in ticks since 2024-01-01T00:00:00Z.  A datetime is an  *)
(* integer number of ticks; a tick is the clock's resolution, a fraction   *)
(* of a second (TicksPerSecond of them make one second).                   *)
(*                                                                         *)
(* A text is modelled by its whitespace-separated tokens, lower-cased (the *)
(* code lower-cases before it splits, and strptime matches month names     *)
(* without regard to case).                                                *)
(***************************************************************************)
EXTENDS Integers, Sequences, FiniteSets, TLC

VARIABLES
    arg,            \* pure-function specifications: the input of the call
    ret,            \* pure-function specifications: the outcomes of the calls
    clock,          \* datetime.datetime.now(datetime.timezone.utc)
    semaphore,      \* the free slots of the module's asyncio.Semaphore
    pc,             \* where each process_novel task is
    listing,        \* the listing page the site serves for each novel
    now_103,        \* each task's local `now` of scrape_paid_chapters_async
    result,         \* what each task returned to gather: <<>>, or <<outcome>>
    all_items,      \* main_async's all_items
    lastBuildDate,  \* the feed's lastBuildDate, 0 before the feed is built
    main_pc,        \* where main_async is
    output_file,    \* the content of dh_paid_feed.xml
    first_run,      \* ReplaySpec: <<>>, or <<the item order of the first run>>
    gate            \* GateSpec: how many tasks are at each place

fnVars == <<arg, ret>>
runVars == <<clock, semaphore, pc, listing, now_103, result, all_items, lastBuildDate,
             main_pc, output_file, first_run>>
vars == <<arg, ret, clock, semaphore, pc, listing, now_103, result, all_items,
          lastBuildDate, main_pc, output_file, first_run, gate>>

-----------------------------------------------------------------------------
(* Bounds of the model *)

TicksPerSecond == 2      \* clock resolution (the code's is the microsecond)
MaxDateLen == 3          \* tokens in a date text
MaxItems == 3            \* items in a list handed to the sort on its own
MaxChapters == 2         \* chapter nodes in a generated listing
NumNovels == 2           \* novels of TRANSLATOR_NOVEL_MAP, each task followed
NumTasks == 102          \* novels of TRANSLATOR_NOVEL_MAP, the tasks counted
MaxTicks == 2            \* ticks the clock advances during one run

-----------------------------------------------------------------------------
(* Calendar arithmetic of datetime.timedelta *)

SecondsPerMinute == 60
MinutesPerHour == 60
HoursPerDay == 24
DaysPerWeek == 7

Minute == SecondsPerMinute * TicksPerSecond
Hour == MinutesPerHour * Minute
Day == HoursPerDay * Hour
Week == DaysPerWeek * Day

\* An outcome of a call: a returned value, or an exception leaving the call.
Ok(v) == [raised |-> FALSE, value |-> v]
Raised == [raised |-> TRUE, value |-> 0]

\* The variables of the run, in a specification that does not run it.
NoRun ==
    /\ clock = 0
    /\ semaphore = 0
    /\ pc = <<>>
    /\ listing = <<>>
    /\ now_103 = <<>>
    /\ result = <<>>
    /\ all_items = <<>>
    /\ lastBuildDate = 0
    /\ main_pc = "idle"
    /\ output_file = "previous"
    /\ first_run = <<>>
    /\ gate = <<>>

NoCall ==
    /\ arg = <<>>
    /\ ret = <<>>

-----------------------------------------------------------------------------
(* extract_pubdate_from_soup *)

\* Tokens a date text is made of.
MonthTokens == {"march"}
DayTokens == {"5,", "6,", "12,"}
YearTokens == {"2024"}
DateTokens == {"march", "5,", "2024", "2", "minutes", "hours", "days", "weeks",
               "weekdays", "months", "ago"}

\* str.isdigit() and int() on a token.
IntOf == [t \in {"2", "7", "2024"} |->
             CASE t = "2" -> 2 [] t = "7" -> 7 [] t = "2024" -> 2024]
IsDigit(t) == t \in DOMAIN IntOf

\* `kw in unit`: the unit keywords a token contains as a substring.
KeywordsIn(t) ==
    CASE t = "minutes" -> {"minute"}
      [] t = "hours" -> {"hour"}
      [] t = "days" -> {"day"}
      [] t = "weeks" -> {"week"}
      [] t = "weekdays" -> {"week", "day"}
      [] OTHER -> {}

\* Day of the year 2024 on which a month starts (0-based): 31 + 29 for March.
MonthStart(m) == 60
DayOfMonth(d) == CASE d = "5," -> 5 [] d = "6," -> 6 [] d = "12," -> 12

\* datetime.strptime(date_str, "%B %d, %Y"): succeeds on exactly the texts
\* "<Month> <day>, <year>", and raises ValueError on every other text.
StrptimeOk(text) ==
    /\ Len(text) = 3
    /\ text[1] \in MonthTokens
    /\ text[2] \in DayTokens
    /\ text[3] \in YearTokens

\* The parsed date at midnight, tzinfo replaced by UTC.
Strptime(text) == (MonthStart(text[1]) + DayOfMonth(text[2]) - 1) * Day

\* The relative-time branch (lines 49-61) when parts[0] is a digit string.
RelativeTime(parts, now) ==
    IF Len(parts) < 2 THEN Raised       \* unit = parts[1]: IndexError
    ELSE LET num == IntOf[parts[1]]
             unit == parts[2]
         IN  IF "minute" \in KeywordsIn(unit) THEN Ok(now - num * Minute)
             ELSE IF "hour" \in KeywordsIn(unit) THEN Ok(now - num * Hour)
             ELSE IF "day" \in KeywordsIn(unit) THEN Ok(now - num * Day)
             ELSE IF "week" \in KeywordsIn(unit) THEN Ok(now - num * Week)
             ELSE Ok(now)

\* chap.date: present is "the node has span.chapter-release-date with an <i>";
\* text is the <i>'s text.  now is the clock when the function runs.
extract_pubdate_from_soup(date, now) ==
    IF ~date.present THEN Ok(now)
    ELSE IF StrptimeOk(date.text) THEN Ok(Strptime(date.text))
    ELSE IF Len(date.text) > 0 /\ IsDigit(date.text[1])
         THEN RelativeTime(date.text, now)
         ELSE Ok(now)

-----------------------------------------------------------------------------
(* DateSpec: extract_pubdate_from_soup applied to every bounded date text *)

RECURSIVE SeqsUpTo(_, _)
SeqsUpTo(S, n) ==
    IF n = 0 THEN {<<>>}
    ELSE LET shorter == SeqsUpTo(S, n - 1)
         IN  shorter \cup {Append(s, x) : s \in shorter, x \in S}

\* The texts of up to MaxDateLen tokens, but "2024 weeks ...": that many ticks
\* exceed the 32-bit integers the model is evaluated with.
DateTexts ==
    {t \in SeqsUpTo(DateTokens, MaxDateLen) :
        ~(Len(t) >= 2 /\ t[1] = "2024" /\ t[2] = "weeks")}

DateElements ==
    {[present |-> FALSE, text |-> <<>>]}
        \cup {[present |-> TRUE, text |-> t] : t \in DateTexts}

\* 2024-03-13T00:00:00Z
RunStart == 72 * Day

DateInit ==
    /\ NoRun
    /\ arg \in {[date |-> d, now |-> n] : d \in DateElements, n \in {RunStart, RunStart + 1}}
    /\ ret = <<>>

CallExtractPubdate ==
    /\ ret = <<>>
    /\ "date" \in DOMAIN arg
    /\ ret' = <<extract_pubdate_from_soup(arg.date, arg.now)>>
    /\ UNCHANGED <<arg, runVars, gate>>

DateNext == CallExtractPubdate

DateSpec == DateInit /\ [][DateNext]_vars

\* The length of the unit a unit word names.
UnitTicks(t) ==
    CASE t = "minutes" -> Minute
      [] t = "hours" -> Hour
      [] t \in {"days", "weekdays"} -> Day
      [] t = "weeks" -> Week

\* C7: extract_pubdate_from_soup never raises and returns midnight of the
\* named day for an absolute text, now - n*unit for "<n> <unit> ..." with a unit
\* word naming minute, hour, day or week, and now for every other text and for a
\* missing date element.
C7_DateNormalizerTotal ==
    (ret # <<>>) =>
        /\ ~ret[1].raised
        /\ ret[1].value =
             IF arg.date.present /\ StrptimeOk(arg.date.text)
                 THEN Strptime(arg.date.text)
             ELSE IF /\ arg.date.present
                     /\ Len(arg.date.text) >= 2
                     /\ IsDigit(arg.date.text[1])
                     /\ KeywordsIn(arg.date.text[2]) # {}
                 THEN arg.now - IntOf[arg.date.text[1]] * UnitTicks(arg.date.text[2])
             ELSE arg.now

-----------------------------------------------------------------------------
(* chapter_num, normalize_date and the sort of main_async (line 266) *)

\* A chapter label is a sequence of characters; "c" stands for any letter.
Digits == {"0", "1", "2", "5"}
DigitVal(c) == CASE c = "0" -> 0 [] c = "1" -> 1 [] c = "2" -> 2 [] c = "5" -> 5

\* Last index of the run of digits that starts at i (s[i] is a digit).
RECURSIVE DigitRunEnd(_, _)
DigitRunEnd(s, i) ==
    IF i + 1 <= Len(s) /\ s[i + 1] \in Digits THEN DigitRunEnd(s, i + 1) ELSE i

\* int() of the digit string s[i..j].
RECURSIVE DigitsValue(_, _, _)
DigitsValue(s, i, j) ==
    IF j < i THEN 0 ELSE DigitsValue(s, i, j - 1) * 10 + DigitVal(s[j])

RECURSIVE Pow10(_)
Pow10(n) == IF n = 0 THEN 1 ELSE 10 * Pow10(n - 1)

\* A number of the key: the rational n/d (d = 1 for an int, a power of ten for
\* a float), so that ints and floats compare by value as Python's do.
NumLess(x, y) == x.n * y.d < y.n * x.d
NumEq(x, y) == x.n * y.d = y.n * x.d

\* re.findall(r'\d+(?:\.\d+)?', s) from position i on, each match converted by
\* float(n) if '.' in n else int(n).
RECURSIVE FindNums(_, _)
FindNums(s, i) ==
    IF i > Len(s) THEN <<>>
    ELSE IF s[i] \notin Digits THEN FindNums(s, i + 1)
    ELSE LET j == DigitRunEnd(s, i)
         IN  IF j + 2 <= Len(s) /\ s[j + 1] = "." /\ s[j + 2] \in Digits
             THEN LET k == DigitRunEnd(s, j + 2)
                  IN  <<[n |-> DigitsValue(s, i, j) * Pow10(k - j - 1)
                                  + DigitsValue(s, j + 2, k),
                         d |-> Pow10(k - j - 1)]>> \o FindNums(s, k + 1)
             ELSE <<[n |-> DigitsValue(s, i, j), d |-> 1]>> \o FindNums(s, j + 1)

chapter_num(chaptername) ==
    LET nums == FindNums(chaptername, 1)
    IN  IF nums = <<>> THEN <<[n |-> 0, d |-> 1]>> ELSE nums

\* dt.replace(microsecond=0)
normalize_date(dt) == dt - (dt % TicksPerSecond)

\* Python's tuple comparison a < b: the first differing position decides; when
\* one tuple is a prefix of the other, the shorter one is the smaller.
RECURSIVE TupleLessFrom(_, _, _)
TupleLessFrom(a, b, i) ==
    IF i > Len(a) THEN i <= Len(b)
    ELSE IF i > Len(b) THEN FALSE
    ELSE IF NumEq(a[i], b[i]) THEN TupleLessFrom(a, b, i + 1)
    ELSE NumLess(a[i], b[i])

TupleLongerIsLess(a, b) ==
    IF Len(a) # Len(b) THEN Len(a) > Len(b) ELSE TupleLessFrom(a, b, 1)

TupleLess(a, b) == TupleLessFrom(a, b, 1)

\* The sort key of line 266 and its order.
SortKey(it) == [date |-> normalize_date(it.pubDate), num |-> chapter_num(it.chaptername)]

KeyLess(k1, k2) ==
    \/ k1.date < k2.date
    \/ k1.date = k2.date /\ TupleLess(k1.num, k2.num)

\* list.sort(key=..., reverse=True): a stable sort into descending key order
\* (items with equal keys keep their order), here by insertion from the left.
RECURSIVE InsertDesc(_, _, _)
InsertDesc(sorted, x, i) ==
    IF i > Len(sorted) \/ KeyLess(SortKey(sorted[i]), SortKey(x))
    THEN SubSeq(sorted, 1, i - 1) \o <<x>> \o SubSeq(sorted, i, Len(sorted))
    ELSE InsertDesc(sorted, x, i + 1)

RECURSIVE SortItemsUpTo(_, _)
SortItemsUpTo(items, n) ==
    IF n = 0 THEN <<>> ELSE InsertDesc(SortItemsUpTo(items, n - 1), items[n], 1)

SortItems(items) == SortItemsUpTo(items, Len(items))

-----------------------------------------------------------------------------
(* SortSpec: the sort applied to bounded item lists *)

SortLabels ==
    { <<"c">>,                           \* no numeric token
      <<"c", " ", "1">>,                 \* (1)
      <<"c", " ", "1", ".", "5">>,       \* (1.5)
      <<"c", " ", "1", " ", "5">>,       \* (1, 5)
      <<"c", " ", "1", ".", "0">>,       \* (1.0)
      <<"c", " ", "1", "0">>,            \* (10)
      <<"v", "2", " ", "c", "0">> }      \* (2, 0)

SortDates == {RunStart, RunStart + 1, RunStart + TicksPerSecond}

SortInputs == [pubDate : SortDates, chaptername : SortLabels]

SortInit ==
    /\ NoRun
    /\ arg = [items |-> <<>>]
    /\ ret = <<>>

AddItem ==
    /\ ret = <<>>
    /\ "items" \in DOMAIN arg
    /\ Len(arg.items) < MaxItems
    /\ \E it \in SortInputs : arg' = [items |-> Append(arg.items, it)]
    /\ UNCHANGED <<ret, runVars, gate>>

CallSort ==
    /\ ret = <<>>
    /\ "items" \in DOMAIN arg
    /\ ret' = <<SortItems(arg.items)>>
    /\ UNCHANGED <<arg, runVars, gate>>

SortNext == AddItem \/ CallSort

SortSpec == SortInit /\ [][SortNext]_vars

\* The claim's order on chapter keys, stated on its own: a label without a
\* numeric token has key (0); tuples are compared position by position after
\* the shorter one is padded with a value below every chapter number.
ClaimKey(label) ==
    IF \A i \in 1..Len(label) : label[i] \notin Digits
    THEN <<[n |-> 0, d |-> 1]>>
    ELSE FindNums(label, 1)

Padded(t, len) == [i \in 1..len |-> IF i <= Len(t) THEN t[i] ELSE [n |-> -1, d |-> 1]]

ClaimTupleGreater(a, b) ==
    LET len == IF Len(a) > Len(b) THEN Len(a) ELSE Len(b)
        pa == Padded(a, len)
        pb == Padded(b, len)
    IN  \E i \in 1..len :
            /\ NumLess(pb[i], pa[i])
            /\ \A j \in 1..(i - 1) : NumEq(pa[j], pb[j])

WholeSecond(dt) == dt \div TicksPerSecond

\* Non-increasing in (whole second of pubDate, chapter key).
OrderedByCompositeKey(items) ==
    \A i, j \in 1..Len(items) :
        i < j =>
            /\ WholeSecond(items[i].pubDate) >= WholeSecond(items[j].pubDate)
            /\ WholeSecond(items[i].pubDate) = WholeSecond(items[j].pubDate)
                   => ~ClaimTupleGreater(ClaimKey(items[j].chaptername),
                                         ClaimKey(items[i].chaptername))

\* C5: the sorted sequence is non-increasing in (publishedAt truncated to whole
\* seconds, chapter key): an item never precedes one of a later second, and
\* within one second never precedes one with a greater chapter key.
C5_SortedByCompositeKey ==
    (ret # <<>> /\ "items" \in DOMAIN arg) => OrderedByCompositeKey(ret[1])

\* Two items of one second, the shorter key a prefix of the longer, were sorted.
C5_Witness ==
    /\ ret # <<>>
    /\ "items" \in DOMAIN arg
    /\ \E i, j \in 1..Len(arg.items) :
          /\ i < j
          /\ WholeSecond(arg.items[i].pubDate) = WholeSecond(arg.items[j].pubDate)
          /\ arg.items[i].pubDate # arg.items[j].pubDate
          /\ arg.items[i].chaptername = <<"c", " ", "1">>
          /\ arg.items[j].chaptername = <<"c", " ", "1", " ", "5">>
          /\ ret[1] # arg.items

-----------------------------------------------------------------------------
(* Listing pages *)

(* A page is [vol, flat]: vol is <<>> or <<volumes>>, the content of         *)
(* ul.main.version-chap.volumns, a sequence of li.parent.has-child groups  *)
(* [has_label, label, chapters]; flat is <<>> or <<chapters>>, the content   *)
(* of ul.main.version-chap.no-volumn.  A chapter node (li.wp-manga-chapter)*)
(* is [classes, date, has_a, title].  The volume container precedes the    *)
(* flat one in the document.  desc is the cleaned text of                   *)
(* div.description-summary: "" when the page has none, "text", or "ctrl"   *)
(* when it holds a character no XML document may contain (U+0008).  The    *)
(* link, guid, coin and nameextend of a chapter are not modelled.          *)

FreshDays == 7

\* split_title(full_title)[0]: the text before the first " - ", stripped.
RECURSIVE SeparatorAt(_, _)
SeparatorAt(s, i) ==
    IF i + 2 > Len(s) THEN 0
    ELSE IF s[i] = " " /\ s[i + 1] = "-" /\ s[i + 2] = " " THEN i
    ELSE SeparatorAt(s, i + 1)

RECURSIVE Strip(_)
Strip(s) ==
    IF s = <<>> THEN s
    ELSE IF s[1] = " " THEN Strip(Tail(s))
    ELSE IF s[Len(s)] = " " THEN Strip(SubSeq(s, 1, Len(s) - 1))
    ELSE s

split_title(full_title) ==
    LET i == SeparatorAt(full_title, 1)
    IN  IF i = 0 THEN <<Strip(full_title), <<>>>>
        ELSE <<Strip(SubSeq(full_title, 1, i - 1)),
               Strip(SubSeq(full_title, i + 3, Len(full_title)))>>

\* re.match(r'\s*(\d+(?:\.\d+)?)', vol_full): the leading number, or "".
RECURSIVE LeadingNumber(_)
LeadingNumber(s) ==
    IF s = <<>> THEN <<>>
    ELSE IF s[1] = " " THEN LeadingNumber(Tail(s))
    ELSE IF s[1] \notin Digits THEN <<>>
    ELSE LET j == DigitRunEnd(s, 1)
         IN  IF j + 2 <= Len(s) /\ s[j + 1] = "." /\ s[j + 2] \in Digits
             THEN SubSeq(s, 1, DigitRunEnd(s, j + 2))
             ELSE SubSeq(s, 1, j)

\* One chapter loop of scrape_paid_chapters_async (lines 112-143, 148-177)
\* from node i on.  now is the clock read at line 103, later the clock when
\* the dates are extracted.  src, the node an entry comes from, is a ghost
\* field.
\* The staleness test of lines 116 and 152.
StaleAfterEightDays(pub_dt, now) == pub_dt < now - (FreshDays + 1) * Day

IsStale(pub_dt, now) == pub_dt < now - FreshDays * Day

RECURSIVE ScrapeList(_, _, _, _, _, _, _)
ScrapeList(nodes, i, vol_id, shape, v, now, later) ==
    IF i > Len(nodes) THEN Ok(<<>>)
    ELSE LET node == nodes[i]
             rest == ScrapeList(nodes, i + 1, vol_id, shape, v, now, later)
             pub_dt == extract_pubdate_from_soup(node.date, later)
         IN  IF "free-chap" \in node.classes THEN rest
             ELSE IF pub_dt.raised THEN Raised
             ELSE IF IsStale(pub_dt.value, now) THEN rest
             ELSE IF ~node.has_a THEN rest
             ELSE IF rest.raised THEN Raised
             ELSE Ok(<<[volume |-> vol_id,
                        chaptername |-> split_title(node.title)[1],
                        pubDate |-> pub_dt.value,
                        src |-> [shape |-> shape, vol |-> v, idx |-> i]]>>
                     \o rest.value)

\* The same loop without the free-chap test of lines 113 and 149.
RECURSIVE ScrapeListKeepFree(_, _, _, _, _, _, _)
ScrapeListKeepFree(nodes, i, vol_id, shape, v, now, later) ==
    IF i > Len(nodes) THEN Ok(<<>>)
    ELSE LET node == nodes[i]
             rest == ScrapeListKeepFree(nodes, i + 1, vol_id, shape, v, now, later)
             pub_dt == extract_pubdate_from_soup(node.date, later)
         IN  IF pub_dt.raised THEN Raised
             ELSE IF IsStale(pub_dt.value, now) THEN rest
             ELSE IF ~node.has_a THEN rest
             ELSE IF rest.raised THEN Raised
             ELSE Ok(<<[volume |-> vol_id,
                        chaptername |-> split_title(node.title)[1],
                        pubDate |-> pub_dt.value,
                        src |-> [shape |-> shape, vol |-> v, idx |-> i]]>>
                     \o rest.value)

ScrapeChaptersKeepFree(nodes, vol_id, shape, v, now, later) ==
    ScrapeListKeepFree(nodes, 1, vol_id, shape, v, now, later)

ScrapeChapters(nodes, vol_id, shape, v, now, later) ==
    ScrapeList(nodes, 1, vol_id, shape, v, now, later)

\* The volume loop (lines 108-143) from group v on.
RECURSIVE ScrapeVolumes(_, _, _, _)
ScrapeVolumes(volumes, v, now, later) ==
    IF v > Len(volumes) THEN Ok(<<>>)
    ELSE IF ~volumes[v].has_label THEN Raised    \* None.get_text: AttributeError
    ELSE LET here == ScrapeChapters(volumes[v].chapters,
                                    LeadingNumber(volumes[v].label), "vol", v, now, later)
             rest == ScrapeVolumes(volumes, v + 1, now, later)
         IN  IF here.raised THEN Raised
             ELSE IF rest.raised THEN Raised
             ELSE Ok(here.value \o rest.value)

\* "description": main_desc of every entry (lines 139 and 173).
Described(entries, main_desc) ==
    [i \in 1..Len(entries) |->
        [volume |-> entries[i].volume,
         chaptername |-> entries[i].chaptername,
         description |-> main_desc,
         pubDate |-> entries[i].pubDate,
         src |-> entries[i].src]]

\* scrape_paid_chapters_async after its fetch: paid_chapters, or an exception.
scrape_paid_chapters(page, now, later) ==
    LET vol == IF page.vol # <<>> THEN ScrapeVolumes(page.vol[1], 1, now, later)
               ELSE Ok(<<>>)
    IN  IF vol.raised THEN Raised
        ELSE LET flat == IF page.flat # <<>>
                         THEN ScrapeChapters(page.flat[1], <<>>, "flat", 0, now, later)
                         ELSE Ok(<<>>)
             IN  IF flat.raised THEN Raised
                 ELSE Ok(Described(vol.value \o flat.value, page.desc))

\* The li.wp-manga-chapter nodes of a page in document order.
RECURSIVE VolumeNodes(_, _)
VolumeNodes(volumes, v) ==
    IF v > Len(volumes) THEN <<>>
    ELSE volumes[v].chapters \o VolumeNodes(volumes, v + 1)

ChapterNodes(page) ==
    (IF page.vol # <<>> THEN VolumeNodes(page.vol[1], 1) ELSE <<>>)
        \o (IF page.flat # <<>> THEN page.flat[1] ELSE <<>>)

\* novel_has_paid_update_async after a successful fetch (lines 87-93).  now is
\* the clock when the date is extracted, later the clock read at line 91.
novel_has_paid_update(page, now, later) ==
    LET nodes == ChapterNodes(page)
    IN  IF /\ nodes # <<>>
           /\ "premium" \in nodes[1].classes
           /\ "free-chap" \notin nodes[1].classes
        THEN LET pub == extract_pubdate_from_soup(nodes[1].date, now)
             IN  IF pub.raised THEN Raised
                 ELSE Ok(pub.value >= later - FreshDays * Day)
        ELSE Ok(FALSE)

\* The items process_novel builds from the chapters (lines 240-257).
RECURSIVE ItemsOf(_, _)
ItemsOf(novel_title, chapters) ==
    IF chapters = <<>> THEN <<>>
    ELSE <<[title |-> novel_title,
            volume |-> chapters[1].volume,
            chaptername |-> chapters[1].chaptername,
            description |-> chapters[1].description,
            pubDate |-> chapters[1].pubDate,
            src |-> chapters[1].src]>>
         \o ItemsOf(novel_title, Tail(chapters))

\* process_novel when both fetches succeed: the preflight at (now1, later1),
\* the extraction at (now2, later2).
process_novel(novel_title, page, now1, later1, now2, later2) ==
    LET has == novel_has_paid_update(page, now1, later1)
    IN  IF has.raised THEN Raised
        ELSE IF ~has.value THEN Ok(<<>>)
        ELSE LET chapters == scrape_paid_chapters(page, now2, later2)
             IN  IF chapters.raised THEN Raised
                 ELSE Ok(ItemsOf(novel_title, chapters.value))

-----------------------------------------------------------------------------
(* PageSpec: the preflight, the extractor and process_novel applied to     *)
(* every bounded listing page                                              *)

NodeDates ==
    { [present |-> FALSE, text |-> <<>>],
      [present |-> TRUE, text |-> <<"march", "12,", "2024">>],
      [present |-> TRUE, text |-> <<"march", "5,", "2024">>],
      [present |-> TRUE, text |-> <<"2", "weeks", "ago">>],
      [present |-> TRUE, text |-> <<"2">>] }

GenNodes ==
    [classes : SUBSET {"premium", "free-chap"}, date : NodeDates,
     has_a : {TRUE}, title : {<<"c", " ", "1">>}]
        \cup {[classes |-> {"premium"}, date |-> [present |-> FALSE, text |-> <<>>],
               has_a |-> FALSE, title |-> <<>>]}

GenLists == SeqsUpTo(GenNodes, MaxChapters)

GenPages ==
    {[vol |-> <<<<[has_label |-> TRUE, label |-> <<"2", " ", "v">>, chapters |-> c]>>>>,
      flat |-> <<>>, desc |-> "text"] : c \in GenLists}
        \cup {[vol |-> <<>>, flat |-> <<c>>, desc |-> "text"] : c \in GenLists}
        \cup {[vol |-> <<<<[has_label |-> l, label |-> <<"v">>, chapters |-> <<c>>]>>>>,
               flat |-> <<<<d>>>>, desc |-> ""] : c \in GenNodes, d \in GenNodes, l \in BOOLEAN}
        \cup {[vol |-> <<>>, flat |-> <<>>, desc |-> ""]}

PageInit ==
    /\ NoRun
    /\ arg \in [page : GenPages, now : {RunStart + 1}, drift : {0, 1}]
    /\ ret = <<>>

CallHasPaidUpdate ==
    /\ ret = <<>>
    /\ "page" \in DOMAIN arg
    /\ ret' = <<novel_has_paid_update(arg.page, arg.now, arg.now + arg.drift)>>
    /\ UNCHANGED <<arg, runVars, gate>>

CallScrape ==
    /\ Len(ret) = 1
    /\ "page" \in DOMAIN arg
    /\ ret' = Append(ret, scrape_paid_chapters(arg.page, arg.now, arg.now + arg.drift))
    /\ UNCHANGED <<arg, runVars, gate>>

CallProcessNovel ==
    /\ Len(ret) = 2
    /\ "page" \in DOMAIN arg
    /\ ret' = Append(ret, process_novel("novel", arg.page, arg.now, arg.now + arg.drift,
                                        arg.now, arg.now + arg.drift))
    /\ UNCHANGED <<arg, runVars, gate>>

PageNext == CallHasPaidUpdate \/ CallScrape \/ CallProcessNovel

PageSpec == PageInit /\ [][PageNext]_vars

\* The node of a page an item or chapter entry was made from.
SourceNode(page, src) ==
    IF src.shape = "vol" THEN page.vol[1][src.vol].chapters[src.idx]
    ELSE page.flat[1][src.idx]

NoneFromFree(page, entries) ==
    \A i \in 1..Len(entries) : "free-chap" \notin SourceNode(page, entries[i].src).classes

\* C4: no chapter entry the extractor returns, and no item process_novel
\* builds, comes from a node with class free-chap, in either listing shape.
C4_NoFreeChapter ==
    /\ (Len(ret) >= 2 /\ "page" \in DOMAIN arg /\ ~ret[2].raised)
           => NoneFromFree(arg.page, ret[2].value)
    /\ (Len(ret) >= 3 /\ "page" \in DOMAIN arg /\ ~ret[3].raised)
           => NoneFromFree(arg.page, ret[3].value)

\* A page with a fresh free chapter and a paid one was extracted and gave items.
C4_Witness ==
    /\ Len(ret) = 3
    /\ "page" \in DOMAIN arg
    /\ ~ret[3].raised
    /\ ret[3].value # <<>>
    /\ \E i \in 1..Len(ChapterNodes(arg.page)) :
          LET node == ChapterNodes(arg.page)[i]
          IN  /\ "free-chap" \in node.classes
              /\ node.has_a
              /\ node.date = [present |-> TRUE, text |-> <<"march", "12,", "2024">>]

\* C9: when the preflight returns false on a page, the extractor run on the
\* same page emits nothing, and the items of process_novel (with the preflight)
\* are those of the extractor run unconditionally.
C9_PreflightNeverChangesResult ==
    (Len(ret) = 3 /\ "page" \in DOMAIN arg /\ ~ret[1].raised /\ ~ret[2].raised) =>
        /\ ~ret[1].value => ret[2].value = <<>>
        /\ ~ret[3].raised
        /\ ret[3].value = ItemsOf("novel", ret[2].value)

-----------------------------------------------------------------------------
(* Spec: one run of main_async over the configured novels *)

SemaphoreCapacity == 100

Novels == 1..NumNovels

\* 2024-03-13T00:00:00Z and the last tick of its first second.
ClockStart == RunStart + TicksPerSecond - 1
MaxClock == ClockStart + MaxTicks

PaidNode(date, title) ==
    [classes |-> {"premium"}, date |-> [present |-> TRUE, text |-> date],
     has_a |-> TRUE, title |-> title]

FreeNode(date, title) ==
    [classes |-> {"premium", "free-chap"}, date |-> [present |-> TRUE, text |-> date],
     has_a |-> TRUE, title |-> title]

\* The listing pages the site may serve for a novel.
HotPage ==          \* flat: one paid chapter of two hours ago
    [vol |-> <<>>,
     flat |-> <<<<PaidNode(<<"2", "hours", "ago">>, <<"c", " ", "1", " ", "-", " ", "c">>)>>>>,
     desc |-> "text"]

WeekPage ==         \* volumes: a paid chapter of 7 days ago, a free one, a stale one
    [vol |-> <<<<[has_label |-> TRUE, label |-> <<"2", " ", "v">>,
                  chapters |-> <<PaidNode(<<"7", "days", "ago">>, <<"c", " ", "2">>),
                                 FreeNode(<<"march", "12,", "2024">>, <<"c", " ", "1">>),
                                 PaidNode(<<"march", "6,", "2024">>, <<"c", " ", "0">>)>>]>>>>,
     flat |-> <<>>,
     desc |-> "text"]

BadDatePage ==      \* flat: a paid chapter whose date text is a bare number
    [vol |-> <<>>,
     flat |-> <<<<PaidNode(<<"march", "12,", "2024">>, <<"c", " ", "5">>),
                  PaidNode(<<"2">>, <<"c", " ", "2">>)>>>>,
     desc |-> "text"]

CtrlPage ==         \* flat: a paid chapter; the synopsis holds U+0008
    [vol |-> <<>>,
     flat |-> <<<<PaidNode(<<"march", "12,", "2024">>, <<"c", " ", "1", ".", "5">>)>>>>,
     desc |-> "ctrl"]

RunPages == {HotPage, WeekPage, BadDatePage, CtrlPage}

Init ==
    /\ NoCall
    /\ clock = ClockStart
    /\ semaphore = SemaphoreCapacity
    /\ pc = [n \in Novels |-> "start"]
    /\ listing \in [Novels -> RunPages]
    /\ now_103 = [n \in Novels |-> 0]
    /\ result = [n \in Novels |-> <<>>]
    /\ all_items = <<>>
    /\ lastBuildDate = 0
    /\ main_pc = "gather"
    /\ output_file = "previous"
    /\ first_run = <<>>
    /\ gate = <<>>

\* The clock readings of one synchronous stretch of code: it starts at clock
\* and ends at clock or one tick later.
Laters == {t \in {clock, clock + 1} : t <= MaxClock}

\* Time passes while the tasks wait for their responses.
Tick ==
    /\ main_pc = "gather"
    /\ clock < MaxClock
    /\ clock' = clock + 1
    /\ UNCHANGED <<semaphore, pc, listing, now_103, result, all_items, lastBuildDate,
                   main_pc, output_file, first_run, fnVars, gate>>

\* A task leaves `async with semaphore` (line 235) by return or by exception.
Leave(n, how, outcome) ==
    /\ pc' = [pc EXCEPT ![n] = how]
    /\ result' = [result EXCEPT ![n] = <<outcome>>]
    /\ semaphore' = semaphore + 1

\* Semaphore.acquire returns at once when a slot is free; the task is
\* suspended otherwise.
AdmitAlways(free) == TRUE

CanAcquire(free) == free > 0

\* async with semaphore (line 235), then up to the request of line 78.
Acquire(n) ==
    /\ main_pc = "gather"
    /\ pc[n] = "start"
    /\ CanAcquire(semaphore)
    /\ semaphore' = semaphore - 1
    /\ pc' = [pc EXCEPT ![n] = "preflight_fetch"]
    /\ UNCHANGED <<clock, listing, now_103, result, all_items, lastBuildDate, main_pc,
                   output_file, first_run, fnVars, gate>>

\* The preflight's fetch fails: novel_has_paid_update_async returns False
\* (lines 85-86) and process_novel returns [] (line 238).
PreflightFetchFails(n) ==
    /\ main_pc = "gather"
    /\ pc[n] = "preflight_fetch"
    /\ Leave(n, "returned", Ok(<<>>))
    /\ UNCHANGED <<clock, listing, now_103, all_items, lastBuildDate, main_pc,
                   output_file, first_run, fnVars, gate>>

\* The preflight's fetch returns the page: lines 87-93, then line 238 or up to
\* the request of the extraction (lines 239, 96, 78).
PreflightFetchReturns(n) ==
    /\ main_pc = "gather"
    /\ pc[n] = "preflight_fetch"
    /\ \E later \in Laters :
          LET has == novel_has_paid_update(listing[n], clock, later)
          IN  /\ clock' = later
              /\ IF has.raised THEN Leave(n, "raised", Raised)
                 ELSE IF ~has.value THEN Leave(n, "returned", Ok(<<>>))
                 ELSE /\ pc' = [pc EXCEPT ![n] = "scrape_fetch"]
                      /\ UNCHANGED <<result, semaphore>>
    /\ UNCHANGED <<listing, now_103, all_items, lastBuildDate, main_pc, output_file,
                   first_run, fnVars, gate>>

\* The extraction's fetch fails: the exception leaves scrape_paid_chapters_async
\* and process_novel.
ScrapeFetchFails(n) ==
    /\ main_pc = "gather"
    /\ pc[n] = "scrape_fetch"
    /\ Leave(n, "raised", Raised)
    /\ UNCHANGED <<clock, listing, now_103, all_items, lastBuildDate, main_pc,
                   output_file, first_run, fnVars, gate>>

\* The extraction's fetch returns the page: lines 97-179 and 240-257.
ScrapeFetchReturns(n) ==
    /\ main_pc = "gather"
    /\ pc[n] = "scrape_fetch"
    /\ \E later \in Laters :
          LET chapters == scrape_paid_chapters(listing[n], clock, later)
          IN  /\ clock' = later
              /\ now_103' = [now_103 EXCEPT ![n] = clock]
              /\ IF chapters.raised THEN Leave(n, "raised", Raised)
                 ELSE Leave(n, "returned", Ok(ItemsOf(n, chapters.value)))
    /\ UNCHANGED <<listing, all_items, lastBuildDate, main_pc, output_file, first_run,
                   fnVars, gate>>

\* gather without return_exceptions (line 263): the first exception of a task
\* leaves gather, the session and main_async; asyncio.run then cancels the tasks
\* still running, which leave `async with semaphore` by CancelledError.
Running(n) == pc[n] \in {"start", "preflight_fetch", "scrape_fetch"}
Holding(n) == pc[n] \in {"preflight_fetch", "scrape_fetch"}

Abort ==
    /\ main_pc = "gather"
    /\ \E n \in Novels : pc[n] = "raised"
    /\ main_pc' = "aborted"
    /\ pc' = [n \in Novels |-> IF Running(n) THEN "cancelled" ELSE pc[n]]
    /\ semaphore' = semaphore + Cardinality({n \in Novels : Holding(n)})
    /\ UNCHANGED <<clock, listing, now_103, result, all_items, lastBuildDate,
                   output_file, first_run, fnVars, gate>>

\* The results of gather, in the order of the tasks (lines 261-264).
RECURSIVE Gathered(_, _)
Gathered(res, n) ==
    IF n = 0 THEN <<>> ELSE Gathered(res, n - 1) \o res[n][1].value

\* Every task has returned: lines 263-274.
Aggregate ==
    /\ main_pc = "gather"
    /\ \A n \in Novels : pc[n] = "returned"
    /\ all_items' = SortItems(Gathered(result, NumNovels))
    /\ lastBuildDate' = clock
    /\ main_pc' = "open_raw"
    /\ UNCHANGED <<clock, semaphore, pc, listing, now_103, result, output_file,
                   first_run, fnVars, gate>>

\* open(output_file, "w") of line 277 truncates the file.
OpenRaw ==
    /\ main_pc = "open_raw"
    /\ output_file' = "empty"
    /\ main_pc' = "write_raw"
    /\ UNCHANGED <<clock, semaphore, pc, listing, now_103, result, all_items,
                   lastBuildDate, first_run, fnVars, gate>>

\* feed.writexml (line 278) and the close of the file.
WriteRaw ==
    /\ main_pc = "write_raw"
    /\ output_file' = "raw"
    /\ main_pc' = "reparse"
    /\ UNCHANGED <<clock, semaphore, pc, listing, now_103, result, all_items,
                   lastBuildDate, first_run, fnVars, gate>>

\* A write of line 278 fails (OSError): what was written so far stays.
WriteRawFails ==
    /\ main_pc = "write_raw"
    /\ output_file' = "partial"
    /\ main_pc' = "failed"
    /\ UNCHANGED <<clock, semaphore, pc, listing, now_103, result, all_items,
                   lastBuildDate, first_run, fnVars, gate>>

\* xml.dom.minidom.parseString accepts the raw document unless a CDATA block
\* (lines 199, 207) holds a character XML forbids.
WellFormed(items) == \A i \in 1..Len(items) : items[i].description # "ctrl"

\* Lines 281-283: the raw file is read back and parsed, or ExpatError leaves
\* main_async.
ReparseRaw ==
    /\ main_pc = "reparse"
    /\ main_pc' = IF WellFormed(all_items) THEN "open_pretty" ELSE "failed"
    /\ UNCHANGED <<clock, semaphore, pc, listing, now_103, result, all_items,
                   lastBuildDate, output_file, first_run, fnVars, gate>>

\* open(output_file, "w") of line 284 truncates the file again.
OpenPretty ==
    /\ main_pc = "open_pretty"
    /\ output_file' = "empty"
    /\ main_pc' = "write_pretty"
    /\ UNCHANGED <<clock, semaphore, pc, listing, now_103, result, all_items,
                   lastBuildDate, first_run, fnVars, gate>>

\* f.write(pretty) (line 285) and the close of the file.
WritePretty ==
    /\ main_pc = "write_pretty"
    /\ output_file' = "pretty"
    /\ main_pc' = "done"
    /\ UNCHANGED <<clock, semaphore, pc, listing, now_103, result, all_items,
                   lastBuildDate, first_run, fnVars, gate>>

TaskStep(n) ==
    \/ Acquire(n)
    \/ PreflightFetchFails(n)
    \/ PreflightFetchReturns(n)
    \/ ScrapeFetchFails(n)
    \/ ScrapeFetchReturns(n)

MainStep ==
    \/ Abort
    \/ Aggregate
    \/ OpenRaw
    \/ WriteRaw
    \/ WriteRawFails
    \/ ReparseRaw
    \/ OpenPretty
    \/ WritePretty

Next ==
    \/ Tick
    \/ \E n \in Novels : TaskStep(n)
    \/ MainStep

Spec == Init /\ [][Next]_vars

-----------------------------------------------------------------------------
(* Properties of a run *)

Aggregated == main_pc \in {"open_raw", "write_raw", "reparse", "open_pretty",
                           "write_pretty", "done", "failed"}

TaskRaised(n) == result[n] # <<>> /\ result[n][1].raised

\* C1: a task that fails does not abort the run and contributes no item: the
\* run is never aborted, and no item of all_items is of a novel whose task
\* raised.
C1_TaskFailureIsolated ==
    /\ main_pc # "aborted"
    /\ \A n \in Novels :
          TaskRaised(n) => \A i \in 1..Len(all_items) : all_items[i].title # n

\* C3 as claimed: every item of the final item set was published no more than
\* 7 days before the aggregation.
C3_FreshAtAggregation ==
    Aggregated =>
        \A i \in 1..Len(all_items) :
            all_items[i].pubDate >= lastBuildDate - FreshDays * Day

\* C3 as amended: every item of the final item set was published no more than
\* 7 days before its own task read the clock for the extraction (line 103).
C3_FreshAtExtraction ==
    Aggregated =>
        \A i \in 1..Len(all_items) :
            all_items[i].pubDate >= now_103[all_items[i].title] - FreshDays * Day

\* The feed holds an item whose task extracted before the aggregation took place.
C3_Witness ==
    /\ main_pc = "done"
    /\ \E i \in 1..Len(all_items) :
          /\ now_103[all_items[i].title] < lastBuildDate
          /\ all_items[i].pubDate = now_103[all_items[i].title] - FreshDays * Day

\* C6: the output file always holds the complete previous feed or the complete
\* new feed, and the previous one when rendering failed.
C6_OutputAllOrNothing ==
    /\ output_file \in {"previous", "pretty"}
    /\ main_pc = "failed" => output_file = "previous"

-----------------------------------------------------------------------------
(* ReplaySpec: the program run twice on the same pages from the same clock  *)
(* reading, every fetch succeeding, the two runs free to interleave their   *)
(* tasks differently                                                        *)

ItemOrder(items) ==
    [i \in 1..Len(items) |-> [title |-> items[i].title, src |-> items[i].src]]

\* asyncio.run(main_async()) once more (line 289), under the conditions of
\* the first run; the item order of the first run is kept for comparison.
Restart ==
    /\ main_pc \in {"done", "failed"}
    /\ first_run = <<>>
    /\ first_run' = <<ItemOrder(all_items)>>
    /\ clock' = ClockStart
    /\ semaphore' = SemaphoreCapacity
    /\ pc' = [n \in Novels |-> "start"]
    /\ now_103' = [n \in Novels |-> 0]
    /\ result' = [n \in Novels |-> <<>>]
    /\ all_items' = <<>>
    /\ lastBuildDate' = 0
    /\ main_pc' = "gather"
    /\ output_file' = "previous"
    /\ UNCHANGED <<listing, fnVars, gate>>

ReplayTaskStep(n) ==
    \/ Acquire(n)
    \/ PreflightFetchReturns(n)
    \/ ScrapeFetchReturns(n)

ReplayMainStep ==
    \/ Abort
    \/ Aggregate
    \/ OpenRaw
    \/ WriteRaw
    \/ ReparseRaw
    \/ OpenPretty
    \/ WritePretty
    \/ Restart

ReplayNext ==
    \/ Tick
    \/ \E n \in Novels : ReplayTaskStep(n)
    \/ ReplayMainStep

ReplaySpec == Init /\ [][ReplayNext]_vars

Range(f) == {f[i] : i \in DOMAIN f}

\* C8: two runs on the same pages that differ only in the interleaving of the
\* tasks and hold the same items hold them in the same order.
C8_OrderIndependentOfSchedule ==
    (first_run # <<>> /\ Aggregated /\ Range(ItemOrder(all_items)) = Range(first_run[1]))
        => ItemOrder(all_items) = first_run[1]

-----------------------------------------------------------------------------
(* GateSpec: the admission gate under more tasks than slots.  The tasks run *)
(* the same code and differ only in where they are, so the state counts the *)
(* tasks at each place instead of following each one:                       *)
(*   waiting    before or in semaphore.acquire                              *)
(*   preflight  holding a slot, the preflight's fetch in flight             *)
(*   scrape     holding a slot, the extraction's fetch in flight            *)
(*   finished   left `async with semaphore`                                 *)
(*   unadmitted cancelled while waiting, never admitted                     *)
(* failed: a task has left by an exception; ended: main_async is over.      *)

GateInit ==
    /\ NoCall
    /\ clock = 0
    /\ semaphore = SemaphoreCapacity
    /\ pc = <<>>
    /\ listing = <<>>
    /\ now_103 = <<>>
    /\ result = <<>>
    /\ all_items = <<>>
    /\ lastBuildDate = 0
    /\ main_pc = "idle"
    /\ output_file = "previous"
    /\ first_run = <<>>
    /\ gate = [waiting |-> NumTasks, preflight |-> 0, scrape |-> 0, finished |-> 0,
               unadmitted |-> 0, failed |-> FALSE, ended |-> FALSE]

gateFrame == <<fnVars, clock, pc, listing, now_103, result, all_items, lastBuildDate,
               main_pc, output_file, first_run>>

\* async with semaphore (line 235), then up to the request of line 78.
GateAcquire ==
    /\ ~gate.ended
    /\ gate.waiting > 0
    /\ CanAcquire(semaphore)
    /\ semaphore' = semaphore - 1
    /\ gate' = [gate EXCEPT !.waiting = @ - 1, !.preflight = @ + 1]
    /\ UNCHANGED gateFrame

\* The preflight's fetch fails, or the preflight is negative: return [].
GatePreflightNegative ==
    /\ gate.preflight > 0
    /\ semaphore' = semaphore + 1
    /\ gate' = [gate EXCEPT !.preflight = @ - 1, !.finished = @ + 1]
    /\ UNCHANGED gateFrame

\* The preflight is positive: the extraction's fetch starts, the slot is kept.
GatePreflightPositive ==
    /\ gate.preflight > 0
    /\ gate' = [gate EXCEPT !.preflight = @ - 1, !.scrape = @ + 1]
    /\ UNCHANGED <<semaphore, gateFrame>>

\* The preflight raises while it parses the page (line 90).
GatePreflightRaises ==
    /\ gate.preflight > 0
    /\ semaphore' = semaphore + 1
    /\ gate' = [gate EXCEPT !.preflight = @ - 1, !.finished = @ + 1, !.failed = TRUE]
    /\ UNCHANGED gateFrame

\* The extraction returns its chapters and process_novel its items.
GateScrapeReturns ==
    /\ gate.scrape > 0
    /\ semaphore' = semaphore + 1
    /\ gate' = [gate EXCEPT !.scrape = @ - 1, !.finished = @ + 1]
    /\ UNCHANGED gateFrame

\* The extraction's fetch fails, or the extraction raises while it parses.
GateScrapeRaises ==
    /\ gate.scrape > 0
    /\ semaphore' = semaphore + 1
    /\ gate' = [gate EXCEPT !.scrape = @ - 1, !.finished = @ + 1, !.failed = TRUE]
    /\ UNCHANGED gateFrame

\* gather raises the first exception of a task (line 263); asyncio.run cancels
\* the tasks still running: those holding a slot release it, those waiting
\* leave acquire without one.
GateAbort ==
    /\ ~gate.ended
    /\ gate.failed
    /\ semaphore' = semaphore + gate.preflight + gate.scrape
    /\ gate' = [gate EXCEPT !.waiting = 0, !.preflight = 0, !.scrape = 0,
                            !.finished = @ + gate.preflight + gate.scrape,
                            !.unadmitted = gate.waiting, !.ended = TRUE]
    /\ UNCHANGED gateFrame

\* Every task has returned: gather returns and main_async goes on to its end.
GateComplete ==
    /\ ~gate.ended
    /\ ~gate.failed
    /\ gate.finished = NumTasks
    /\ gate' = [gate EXCEPT !.ended = TRUE]
    /\ UNCHANGED <<semaphore, gateFrame>>

GateNext ==
    \/ GateAcquire
    \/ GatePreflightNegative
    \/ GatePreflightPositive
    \/ GatePreflightRaises
    \/ GateScrapeReturns
    \/ GateScrapeRaises
    \/ GateAbort
    \/ GateComplete

GateSpec == GateInit /\ [][GateNext]_vars

InFlight == gate.preflight + gate.scrape

\* C2: at most 100 fetches are in flight over all tasks and both fetches, and
\* the free slots are those no fetch holds, so that with 100 in flight no
\* task is admitted before one releases.
C2_AtMostHundredInFlight ==
    /\ InFlight <= 100
    /\ semaphore = 100 - InFlight

\* 100 fetches are in flight and a task waits for a slot.
C2_Witness ==
    /\ InFlight = 100
    /\ gate.scrape > 0
    /\ gate.waiting > 0

\* C10: no slot is leaked, and when the run is over every task was admitted
\* and all 100 slots are free.
C10_AdmittedAndReleased ==
    /\ semaphore + InFlight = 100
    /\ gate.ended => (semaphore = 100 /\ gate.unadmitted = 0)

====
